---- MODULE Spec2Model ----
(***************************************************************************)
(* A model of src/dump.go: Dumper.Dump and its helpers getServerVersion,   *)
(* getTables, createTable, createTableSQL, createTableValues, and the      *)
(* template tmpl.  Text is a sequence of one-character strings, the output *)
(* file a sequence of lines, the database an opaque source whose replies   *)
(* are chosen at the moment a query runs.                                  *)
(***************************************************************************)
EXTENDS Integers, Sequences, FiniteSets, TLC

\* ---------------------------------------------------------------- bounds
MaxClock     == 1   \* instants 0..MaxClock at which time.Now() can be read
TicksPerName == 2   \* instants the layout d.format maps to one base name
MaxTables    == 2   \* rows the SHOW TABLES cursor yields at most
PipeRows     == 1   \* rows a SELECT * yields at most (whole-dump runs)
PipeCols     == 1   \* columns a SELECT * reports at most (whole-dump runs)
MaxRows      == 2   \* rows a SELECT * yields at most (one-table runs)
MaxCols      == 2   \* columns a SELECT * reports at most (one-table runs)

\* ------------------------------------------------------------ vocabulary
TableNames == {"users", "logs"}
NoTable    == "-"
QUOTE      == "'"

\* A column value as the driver hands it to Scan: SQL NULL, or text.
Null      == [null |-> TRUE, text |-> <<>>]
Text(s)   == [null |-> FALSE, text |-> s]
Values    == {Null, Text(<<>>), Text(<<"a">>), Text(<<QUOTE>>)}
PipeValues == {Null, Text(<<"a">>)}

ServerVersions == {<<"5.7">>}

\* const version = "0.1.0"
version == <<"0.1.0">>

\* The DDL text the source reports for table n.
DDL(n) == <<"CREATE TABLE ", n>>

\* ---------------------------------------------------------------- errors
NoErr            == [kind |-> "none", table |-> NoTable]
ErrExists        == [kind |-> "already exists", table |-> NoTable]
ErrOS            == [kind |-> "os", table |-> NoTable]
ErrDriver        == [kind |-> "driver", table |-> NoTable]
ErrScanNull      == [kind |-> "converting NULL to string is unsupported", table |-> NoTable]
ErrMismatch      == [kind |-> "Returned table is not the same as requested table", table |-> NoTable]
ErrNoColumns(n)  == [kind |-> "No columns in table", table |-> n]
ErrWrite         == [kind |-> "write", table |-> NoTable]

NoFail == [stage |-> "none", table |-> NoTable]
Fail(s, n) == [stage |-> s, table |-> n]

\* ----------------------------------------------------------- file system
\* name := time.Now().Format(d.format); p := path.Join(d.dir, name+".sql")
Format(t) == ToString(t \div TicksPerName)
Path(t)   == <<"dir/", Format(t), ".sql">>
Paths     == {Path(t) : t \in 0..MaxClock}
NoFile    == <<>>
Absent    == [exists |-> FALSE, bytes |-> <<>>]
File(b)   == [exists |-> TRUE, bytes |-> b]

\* time.Now().String()
TimeString(t) == <<"T", ToString(t)>>

VARIABLES
  clock,      \* the last instant read by time.Now()
  fs,         \* the dump directory: path -> file
  pc,         \* position of Dump
  f,          \* the file Dump holds open, or NoFile
  data,       \* the dump document
  tables,     \* getTables' result
  idx,        \* the range loop's position in tables
  t,          \* createTable's record under construction
  cursors,    \* the open result sets (sql.Rows)
  columns,    \* len(columns) in createTableValues
  data_text,  \* createTableValues' tuple list
  err,        \* the error Dump returns
  queries,    \* history: the queries this call has issued
  failed,     \* history: the stage whose operation failed in this call
  rendered,   \* history: the template was executed in this call
  reply,      \* history: what the source replied for the table being exported
  source      \* history: the replies for each table whose row cursor ended cleanly

vars == <<clock, fs, pc, f, data, tables, idx, t, cursors, columns, data_text,
          err, queries, failed, rendered, reply, source>>

locals == <<tables, idx, t, columns, data_text>>
history == <<queries, failed, rendered, reply, source>>

EmptyDump  == [DumpVersion |-> version, ServerVersion |-> <<>>,
               Tables |-> <<>>, CompleteTime |-> <<>>]
NoRecord   == [Name |-> NoTable, SQL |-> <<>>, Values |-> <<>>]
NoReply    == [table |-> NoTable, echo |-> NoTable, ddl |-> <<>>, rows |-> <<>>,
               columns |-> 0]

Init ==
  /\ clock = 0
  /\ fs = [p \in Paths |-> Absent]
  /\ pc = "idle"
  /\ f = NoFile
  /\ data = EmptyDump
  /\ tables = <<>>
  /\ idx = 0
  /\ t = NoRecord
  /\ cursors = <<>>
  /\ columns = 0
  /\ data_text = <<>>
  /\ err = NoErr
  /\ queries = <<>>
  /\ failed = NoFail
  /\ rendered = FALSE
  /\ reply = NoReply
  /\ source = <<>>

\* ------------------------------------------------------------------ text
\* strings.Join(parts, sep)
RECURSIVE Join(_, _)
Join(parts, sep) ==
  IF parts = <<>> THEN <<>>
  ELSE IF Len(parts) = 1 THEN parts[1]
  ELSE parts[1] \o sep \o Join(Tail(parts), sep)

\* "('" + strings.Join(data, "','") + "')"
Tuple(row) == <<"(", QUOTE>> \o Join(row, <<QUOTE, ",", QUOTE>>) \o <<QUOTE, ")">>

\* rows.Scan(ptrs...) into []string: database/sql converts text to string and
\* refuses NULL ("converting NULL to string is unsupported").
ScanOK(row) == \A i \in DOMAIN row : ~row[i].null
Scanned(row) == [i \in DOMAIN row |-> row[i].text]

\* Mutant: the echoed name is not compared with the requested one.
EchoAny(table_return, name) == TRUE

\* table_return != name
EchoMatches(table_return, name) == table_return = name

\* exists(p): whether the destination is already there.
Exists(p) == fs[p].exists

\* rows.Close(), deferred by the function that opened the cursor.
Open(cs, q)  == Append(cs, q)
Close(cs)    == SubSeq(cs, 1, Len(cs) - 1)

\* ------------------------------------------------------------ the template
Line(kind, name, text) == [kind |-> kind, name |-> name, text |-> text]

\* Mutant: the data section is rendered without the {{ if .Values }} test.
TruthAlways(s) == TRUE

\* {{ if .Values }}: a string is true when it is not empty.
Truth(s) == Len(s) > 0

\* {{range .Tables}} ... {{ end }}, for one table
TableLines(rec) ==
  << Line("-- Table structure for table", rec.Name, <<>>),
     Line("DROP TABLE IF EXISTS", rec.Name, <<>>),
     Line("create", NoTable, rec.SQL) >>
  \o IF Truth(rec.Values)
     THEN << Line("-- Dumping data for table", rec.Name, <<>>),
             Line("LOCK TABLES", rec.Name, <<>>),
             Line("INSERT INTO", rec.Name, rec.Values),
             Line("UNLOCK TABLES", NoTable, <<>>) >>
     ELSE <<>>

RECURSIVE RangeTables(_)
RangeTables(recs) ==
  IF recs = <<>> THEN <<>> ELSE TableLines(Head(recs)) \o RangeTables(Tail(recs))

\* t.Execute(f, data)
Render(doc) ==
  << Line("-- Go SQL Dump", NoTable, doc.DumpVersion),
     Line("-- Server version", NoTable, doc.ServerVersion) >>
  \o RangeTables(doc.Tables)
  \o << Line("-- Dump completed on", NoTable, doc.CompleteTime) >>

\* ------------------------------------------------------------------ Dump
Issue(q) == queries' = Append(queries, q)

\* A call begins: the history of the previous call is forgotten.
Begin(now) ==
  /\ pc = "idle"
  /\ clock' = now
  /\ queries' = <<>>
  /\ rendered' = FALSE
  /\ reply' = NoReply
  /\ source' = <<>>

\* if e, _ := exists(p); e { return errors.New("Dump '" + name + "' already exists.") }
DumpExists ==
  \E now \in clock..MaxClock :
    /\ Begin(now)
    /\ Exists(Path(now))
    /\ err' = ErrExists
    /\ failed' = Fail("guard", NoTable)
    /\ pc' = "ret"
    /\ UNCHANGED <<fs, f, data, locals, cursors>>

\* Mutant: os.Create without the exists(p) test before it.
DumpCreateUnguarded ==
  \E now \in clock..MaxClock :
    /\ Begin(now)
    /\ fs' = [fs EXCEPT ![Path(now)] = File(<<>>)]
    /\ f' = Path(now)
    /\ data' = EmptyDump
    /\ err' = NoErr
    /\ failed' = NoFail
    /\ pc' = "version"
    /\ UNCHANGED <<locals, cursors>>

\* f, err := os.Create(p); defer f.Close(); data := dump{...}
DumpCreate ==
  \E now \in clock..MaxClock :
    /\ Begin(now)
    /\ ~Exists(Path(now))
    /\ fs' = [fs EXCEPT ![Path(now)] = File(<<>>)]
    /\ f' = Path(now)
    /\ data' = EmptyDump
    /\ err' = NoErr
    /\ failed' = NoFail
    /\ pc' = "version"
    /\ UNCHANGED <<locals, cursors>>

\* f, err := os.Create(p); if err != nil { return err }
DumpCreateFail ==
  \E now \in clock..MaxClock :
    /\ Begin(now)
    /\ ~Exists(Path(now))
    /\ err' = ErrOS
    /\ failed' = Fail("create", NoTable)
    /\ pc' = "ret"
    /\ UNCHANGED <<fs, f, data, locals, cursors>>

\* data.ServerVersion, err = getServerVersion(d.db)
\* (QueryRow(...).Scan opens and closes its result set within the call.)
GetServerVersion ==
  /\ pc = "version"
  /\ Issue(<<"SELECT version()">>)
  /\ \E v \in ServerVersions : data' = [data EXCEPT !.ServerVersion = v]
  /\ pc' = "tables"
  /\ UNCHANGED <<clock, fs, f, locals, cursors, err, failed, rendered, reply, source>>

GetServerVersionFail ==
  /\ pc = "version"
  /\ Issue(<<"SELECT version()">>)
  /\ err' = ErrDriver
  /\ failed' = Fail("version", NoTable)
  /\ pc' = "ret"
  /\ UNCHANGED <<clock, fs, f, data, locals, cursors, rendered, reply, source>>

\* rows, err := db.Query("SHOW TABLES"); defer rows.Close()
GetTablesQuery ==
  /\ pc = "tables"
  /\ Issue(<<"SHOW TABLES">>)
  /\ cursors' = Open(cursors, <<"SHOW TABLES">>)
  /\ tables' = <<>>
  /\ pc' = "tables_next"
  /\ UNCHANGED <<clock, fs, f, data, idx, t, columns, data_text, err, failed,
                 rendered, reply, source>>

GetTablesQueryFail ==
  /\ pc = "tables"
  /\ Issue(<<"SHOW TABLES">>)
  /\ err' = ErrDriver
  /\ failed' = Fail("tables", NoTable)
  /\ pc' = "ret"
  /\ UNCHANGED <<clock, fs, f, data, locals, cursors, rendered, reply, source>>

\* for rows.Next() { rows.Scan(&table); tables = append(tables, table) }
GetTablesScan ==
  /\ pc = "tables_next"
  /\ Len(tables) < MaxTables
  /\ \E n \in TableNames : tables' = Append(tables, n)
  /\ UNCHANGED <<clock, fs, pc, f, data, idx, t, cursors, columns, data_text, err,
                 history>>

\* if err := rows.Scan(&table); err != nil { return tables, err }
GetTablesScanFail ==
  /\ pc = "tables_next"
  /\ cursors' = Close(cursors)
  /\ err' = ErrScanNull
  /\ failed' = Fail("tables", NoTable)
  /\ pc' = "ret"
  /\ UNCHANGED <<clock, fs, f, data, locals, queries, rendered, reply, source>>

\* return tables, rows.Err()  -- rows.Err() == nil
GetTablesEnd ==
  /\ pc = "tables_next"
  /\ cursors' = Close(cursors)
  /\ idx' = 1
  /\ pc' = "loop"
  /\ UNCHANGED <<clock, fs, f, data, tables, t, columns, data_text, err, history>>

\* return tables, rows.Err()  -- rows.Err() != nil
GetTablesIterErr ==
  /\ pc = "tables_next"
  /\ cursors' = Close(cursors)
  /\ err' = ErrDriver
  /\ failed' = Fail("tables", NoTable)
  /\ pc' = "ret"
  /\ UNCHANGED <<clock, fs, f, data, locals, queries, rendered, reply, source>>

\* for _, name := range tables { t, err := createTable(d.db, name) ...
\* createTable: t := &table{Name: name}
LoopNext ==
  /\ pc = "loop"
  /\ idx <= Len(tables)
  /\ t' = [Name |-> tables[idx], SQL |-> <<>>, Values |-> <<>>]
  /\ reply' = [NoReply EXCEPT !.table = tables[idx]]
  /\ pc' = "sql"
  /\ UNCHANGED <<clock, fs, f, data, tables, idx, cursors, columns, data_text, err,
                 queries, failed, rendered, source>>

\* data.CompleteTime = time.Now().String()
LoopDone ==
  /\ pc = "loop"
  /\ idx > Len(tables)
  /\ \E now \in clock..MaxClock :
       /\ clock' = now
       /\ data' = [data EXCEPT !.CompleteTime = TimeString(now)]
  /\ pc' = "render"
  /\ UNCHANGED <<fs, f, locals, cursors, err, history>>

\* createTableSQL: QueryRow("SHOW CREATE TABLE "+name).Scan(&table_return, &table_sql)
CreateTableSQL ==
  /\ pc = "sql"
  /\ Issue(<<"SHOW CREATE TABLE ", t.Name>>)
  /\ \E echo \in TableNames :
       /\ EchoMatches(echo, t.Name)
       /\ reply' = [reply EXCEPT !.echo = echo, !.ddl = DDL(echo)]
       /\ t' = [t EXCEPT !.SQL = DDL(echo)]
  /\ pc' = "select"
  /\ UNCHANGED <<clock, fs, f, data, tables, idx, cursors, columns, data_text, err,
                 failed, rendered, source>>

\* if table_return != name { return "", errors.New("Returned table is not ...") }
CreateTableSQLMismatch ==
  /\ pc = "sql"
  /\ Issue(<<"SHOW CREATE TABLE ", t.Name>>)
  /\ \E echo \in TableNames :
       /\ ~EchoMatches(echo, t.Name)
       /\ reply' = [reply EXCEPT !.echo = echo, !.ddl = DDL(echo)]
  /\ err' = ErrMismatch
  /\ failed' = Fail("table", t.Name)
  /\ pc' = "ret"
  /\ UNCHANGED <<clock, fs, f, data, locals, cursors, rendered, source>>

\* Mutant: a table whose creation statement cannot be read is skipped.
CreateTableSQLFailSkips ==
  /\ pc = "sql"
  /\ Issue(<<"SHOW CREATE TABLE ", t.Name>>)
  /\ failed' = Fail("table", t.Name)
  /\ idx' = idx + 1
  /\ pc' = "loop"
  /\ UNCHANGED <<clock, fs, f, data, tables, t, columns, data_text, cursors, err,
                 rendered, reply, source>>

\* if err != nil { return "", err }
CreateTableSQLFail ==
  /\ pc = "sql"
  /\ Issue(<<"SHOW CREATE TABLE ", t.Name>>)
  /\ err' = ErrDriver
  /\ failed' = Fail("table", t.Name)
  /\ pc' = "ret"
  /\ UNCHANGED <<clock, fs, f, data, locals, cursors, rendered, reply, source>>

\* createTableValues: rows, err := db.Query("SELECT * FROM " + name); defer rows.Close()
ValuesQuery ==
  /\ pc = "select"
  /\ Issue(<<"SELECT * FROM ", t.Name>>)
  /\ cursors' = Open(cursors, <<"SELECT * FROM ", t.Name>>)
  /\ pc' = "columns"
  /\ UNCHANGED <<clock, fs, f, data, locals, err, failed, rendered, reply, source>>

ValuesQueryFail ==
  /\ pc = "select"
  /\ Issue(<<"SELECT * FROM ", t.Name>>)
  /\ err' = ErrDriver
  /\ failed' = Fail("table", t.Name)
  /\ pc' = "ret"
  /\ UNCHANGED <<clock, fs, f, data, locals, cursors, rendered, reply, source>>

\* columns, err := rows.Columns(); data_text := make([]string, 0)
Columns(maxCols) ==
  /\ pc = "columns"
  /\ \E n \in 1..maxCols :
       /\ columns' = n
       /\ reply' = [reply EXCEPT !.columns = n]
  /\ data_text' = <<>>
  /\ pc' = "rows"
  /\ UNCHANGED <<clock, fs, f, data, tables, idx, t, cursors, err, queries, failed,
                 rendered, source>>

\* if err != nil { return "", err }
ColumnsFail ==
  /\ pc = "columns"
  /\ cursors' = Close(cursors)
  /\ err' = ErrDriver
  /\ failed' = Fail("table", t.Name)
  /\ pc' = "ret"
  /\ UNCHANGED <<clock, fs, f, data, locals, queries, rendered, reply, source>>

\* Mutant: the zero-columns return leaves the cursor open.
ColumnsZeroLeaks ==
  /\ pc = "columns"
  /\ err' = ErrNoColumns(t.Name)
  /\ failed' = Fail("table", t.Name)
  /\ pc' = "ret"
  /\ UNCHANGED <<clock, fs, f, data, locals, cursors, queries, rendered, reply, source>>

\* if len(columns) == 0 { return "", errors.New("No columns in table " + name + ".") }
ColumnsZero ==
  /\ pc = "columns"
  /\ cursors' = Close(cursors)
  /\ err' = ErrNoColumns(t.Name)
  /\ failed' = Fail("table", t.Name)
  /\ pc' = "ret"
  /\ UNCHANGED <<clock, fs, f, data, locals, queries, rendered, reply, source>>

\* for rows.Next() { ...; rows.Scan(ptrs...); data_text = append(data_text, "('"+...+"')") }
RowsScan(vals, maxRows) ==
  /\ pc = "rows"
  /\ Len(reply.rows) < maxRows
  /\ \E row \in [1..columns -> vals] :
       /\ ScanOK(row)
       /\ data_text' = Append(data_text, Tuple(Scanned(row)))
       /\ reply' = [reply EXCEPT !.rows = Append(@, row)]
  /\ UNCHANGED <<clock, fs, pc, f, data, tables, idx, t, cursors, columns, err,
                 queries, failed, rendered, source>>

\* if err := rows.Scan(ptrs...); err != nil { return "", err }
RowsScanFail(vals, maxRows) ==
  /\ pc = "rows"
  /\ Len(reply.rows) < maxRows
  /\ \E row \in [1..columns -> vals] :
       /\ ~ScanOK(row)
       /\ reply' = [reply EXCEPT !.rows = Append(@, row)]
  /\ cursors' = Close(cursors)
  /\ err' = ErrScanNull
  /\ failed' = Fail("table", t.Name)
  /\ pc' = "ret"
  /\ UNCHANGED <<clock, fs, f, data, locals, queries, rendered, source>>

\* Mutant: the new record is put in front of the list.
RowsEndPrepends ==
  /\ pc = "rows"
  /\ cursors' = Close(cursors)
  /\ LET rec == [t EXCEPT !.Values = Join(data_text, <<",">>)]
     IN  /\ t' = rec
         /\ data' = [data EXCEPT !.Tables = <<rec>> \o @]
  /\ source' = <<reply>> \o source
  /\ columns' = 0
  /\ data_text' = <<>>
  /\ idx' = idx + 1
  /\ pc' = "loop"
  /\ UNCHANGED <<clock, fs, f, tables, err, queries, failed, rendered, reply>>

\* Mutant: each table is written to the file as soon as it is exported.
RowsEndStreams ==
  /\ pc = "rows"
  /\ cursors' = Close(cursors)
  /\ LET rec == [t EXCEPT !.Values = Join(data_text, <<",">>)]
     IN  /\ t' = rec
         /\ data' = [data EXCEPT !.Tables = Append(@, rec)]
         /\ fs' = [fs EXCEPT ![f] = File(@.bytes \o TableLines(rec))]
  /\ source' = Append(source, reply)
  /\ columns' = 0
  /\ data_text' = <<>>
  /\ idx' = idx + 1
  /\ pc' = "loop"
  /\ UNCHANGED <<clock, f, tables, err, queries, failed, rendered, reply>>

\* return strings.Join(data_text, ","), rows.Err()  -- rows.Err() == nil;
\* createTable returns t; data.Tables = append(data.Tables, t)
RowsEnd ==
  /\ pc = "rows"
  /\ cursors' = Close(cursors)
  /\ LET rec == [t EXCEPT !.Values = Join(data_text, <<",">>)]
     IN  /\ t' = rec
         /\ data' = [data EXCEPT !.Tables = Append(@, rec)]
  /\ source' = Append(source, reply)
  /\ columns' = 0
  /\ data_text' = <<>>
  /\ idx' = idx + 1
  /\ pc' = "loop"
  /\ UNCHANGED <<clock, fs, f, tables, err, queries, failed, rendered, reply>>

\* return strings.Join(data_text, ","), rows.Err()  -- rows.Err() != nil;
\* createTable: return nil, err
RowsIterErr ==
  /\ pc = "rows"
  /\ cursors' = Close(cursors)
  /\ err' = ErrDriver
  /\ failed' = Fail("table", t.Name)
  /\ pc' = "ret"
  /\ UNCHANGED <<clock, fs, f, data, locals, queries, rendered, reply, source>>

\* t.Execute(f, data) succeeds: the whole script is written to f
RenderOK ==
  /\ pc = "render"
  /\ rendered' = TRUE
  /\ fs' = [fs EXCEPT ![f] = File(@.bytes \o Render(data))]
  /\ pc' = "ret"
  /\ UNCHANGED <<clock, f, data, locals, cursors, err, queries, failed, reply, source>>

\* if err = t.Execute(f, data); err != nil { return err }: a write failed part-way
RenderFail ==
  /\ pc = "render"
  /\ rendered' = TRUE
  /\ \E k \in 0..(Len(Render(data)) - 1) :
       fs' = [fs EXCEPT ![f] = File(@.bytes \o SubSeq(Render(data), 1, k))]
  /\ err' = ErrWrite
  /\ failed' = Fail("render", NoTable)
  /\ pc' = "ret"
  /\ UNCHANGED <<clock, f, data, locals, cursors, queries, reply, source>>

\* return: the deferred f.Close() runs, the locals go out of scope
Return ==
  /\ pc = "ret"
  /\ pc' = "idle"
  /\ f' = NoFile
  /\ data' = EmptyDump
  /\ tables' = <<>>
  /\ idx' = 0
  /\ t' = NoRecord
  /\ columns' = 0
  /\ data_text' = <<>>
  /\ UNCHANGED <<clock, fs, cursors, err, history>>

\* --------------------------------------------------------- specifications
Enumerate ==
  \/ DumpExists \/ DumpCreate \/ DumpCreateFail
  \/ GetServerVersion \/ GetServerVersionFail
  \/ GetTablesQuery \/ GetTablesQueryFail
  \/ GetTablesScan \/ GetTablesScanFail \/ GetTablesEnd \/ GetTablesIterErr

Export ==
  \/ LoopNext \/ LoopDone
  \/ CreateTableSQL \/ CreateTableSQLMismatch \/ CreateTableSQLFail
  \/ ValuesQuery \/ ValuesQueryFail
  \/ ColumnsFail \/ ColumnsZero
  \/ RowsEnd \/ RowsIterErr
  \/ RenderOK \/ RenderFail
  \/ Return

\* Whole dumps, one after another, over small result sets.
Next ==
  \/ Enumerate
  \/ Export
  \/ Columns(PipeCols)
  \/ RowsScan(PipeValues, PipeRows)
  \/ RowsScanFail(PipeValues, PipeRows)

Spec == Init /\ [][Next]_vars

\* One table's export and rendering, over every result set within the bounds:
\* the state Dump is in when SHOW TABLES has listed exactly one table.
InitTable ==
  /\ clock = 0
  /\ fs = [p \in Paths |-> IF p = Path(0) THEN File(<<>>) ELSE Absent]
  /\ pc = "loop"
  /\ f = Path(0)
  /\ \E v \in ServerVersions : data = [EmptyDump EXCEPT !.ServerVersion = v]
  /\ \E n \in TableNames : tables = <<n>>
  /\ idx = 1
  /\ t = NoRecord
  /\ cursors = <<>>
  /\ columns = 0
  /\ data_text = <<>>
  /\ err = NoErr
  /\ queries = << <<"SELECT version()">>, <<"SHOW TABLES">> >>
  /\ failed = NoFail
  /\ rendered = FALSE
  /\ reply = NoReply
  /\ source = <<>>

NextTable ==
  \/ Export
  \/ Columns(MaxCols)
  \/ RowsScan(Values, MaxRows)
  \/ RowsScanFail(Values, MaxRows)

SpecTable == InitTable /\ [][NextTable]_vars

\* ---------------------------------------------------------------- claims
Names(recs) == [i \in DOMAIN recs |-> recs[i].Name]
EarlyStages == {"version", "tables", "table"}

\* C1: a call that finds its destination present takes one step to the return
\* with the "already exists" error, changes no file, and issues no query
\* before it returns.
CollisionStep ==
  (pc = "idle" /\ pc' # "idle" /\ fs[Path(clock')].exists)
    => (pc' = "ret" /\ err' = ErrExists /\ fs' = fs /\ queries' = <<>>)
CollisionReturn ==
  (pc = "ret" /\ err = ErrExists) => (pc' = "idle" /\ fs' = fs /\ queries' = <<>>)
CollisionGuardPrecedesIO == [][CollisionStep /\ CollisionReturn]_vars

\* C1 witness: the call is returning "already exists" and the file it found,
\* a non-empty dump, is still there.
CollisionSeen ==
  pc = "ret" /\ err = ErrExists /\ queries = <<>> /\ Len(fs[Path(clock)].bytes) > 0

\* C2: once a stage has failed the call is returning an error and nothing
\* more runs: no further query, no rendering unless rendering itself failed;
\* and the template runs only with every listed table exported and the
\* completion time stamped.
StageErrors(fl) ==
  CASE fl.stage = "guard"  -> {ErrExists}
    [] fl.stage = "create" -> {ErrOS}
    [] fl.stage = "render" -> {ErrWrite}
    [] fl.stage = "table"  -> {ErrDriver, ErrScanNull, ErrMismatch, ErrNoColumns(fl.table)}
    [] OTHER               -> {ErrDriver, ErrScanNull}
AbortedAtFailure ==
  /\ failed # NoFail =>
        /\ pc \in {"ret", "idle"}
        /\ err \in StageErrors(failed)
        /\ (failed.stage # "render" => ~rendered)
  /\ failed = NoFail => err = NoErr
RenderedAfterAll ==
  (rendered /\ pc = "ret") =>
    /\ Names(data.Tables) = tables
    /\ data.CompleteTime # <<>>
    /\ failed.stage \in {"none", "render"}
NothingAfterFailure ==
  (failed # NoFail /\ pc = "ret") =>
    (pc' = "idle" /\ queries' = queries /\ rendered' = rendered /\ fs' = fs)
FirstFailureAborts ==
  [](AbortedAtFailure /\ RenderedAfterAll) /\ [][NothingAfterFailure]_vars

\* C2 witness: the second of two tables failed after the first was exported.
SecondTableFailed ==
  /\ pc = "ret" /\ failed.stage = "table" /\ ~rendered
  /\ Len(tables) = 2 /\ Len(data.Tables) = 1 /\ idx = 2

\* C3: every record of the document is for a table whose SHOW CREATE TABLE
\* reply echoed the requested name and carried the record's statement, and
\* whose row cursor ended cleanly; a failing table export leaves the list as
\* it was.
RecordsComplete ==
  pc # "idle" =>
    /\ Len(data.Tables) = Len(source)
    /\ \A i \in DOMAIN data.Tables :
         /\ source[i].table = data.Tables[i].Name
         /\ source[i].echo = data.Tables[i].Name
         /\ source[i].ddl = data.Tables[i].SQL
         /\ (data.Tables[i].Values = <<>>) = (source[i].rows = <<>>)
FailureAddsNothing ==
  (failed' # failed /\ failed'.stage = "table") => data'.Tables = data.Tables
NoPartialRecord == []RecordsComplete /\ [][FailureAddsNothing]_vars

\* C3 witness: the reply for the second table echoed another name, and the
\* document still holds the first table alone.
MismatchSeen ==
  /\ pc = "ret" /\ err = ErrMismatch /\ reply.echo # reply.table
  /\ Len(data.Tables) = 1

\* The table names of the DROP TABLE lines of a script, in order.
RECURSIVE DropNames(_)
DropNames(lines) ==
  IF lines = <<>> THEN <<>>
  ELSE IF Head(lines).kind = "DROP TABLE IF EXISTS"
       THEN <<Head(lines).name>> \o DropNames(Tail(lines))
       ELSE DropNames(Tail(lines))

\* C4: the names of the document's records are the first records-many names
\* of the enumeration, and a complete script drops the tables in the
\* enumeration's order.
OrderPreserved ==
  /\ Len(data.Tables) <= Len(tables)
  /\ Names(data.Tables) = SubSeq(tables, 1, Len(data.Tables))
  /\ (pc = "ret" /\ rendered /\ err = NoErr) => DropNames(fs[f].bytes) = tables

\* C4 witness: a complete script for two different tables.
TwoTablesRendered ==
  /\ pc = "ret" /\ rendered /\ err = NoErr
  /\ Len(tables) = 2 /\ tables[1] # tables[2]

\* C8 (as claimed): the error of a failed table export names that table.
TableErrorNamesTable ==
  (pc = "ret" /\ failed.stage = "table") => err.table = failed.table

\* C9: at most one cursor is open, it is the cursor of the function that is
\* running, and none is open outside getTables and createTableValues.
CursorsScoped ==
  /\ Len(cursors) <= 1
  /\ (pc = "tables_next") => cursors = << <<"SHOW TABLES">> >>
  /\ (pc \in {"columns", "rows"}) => cursors = << <<"SELECT * FROM ", t.Name>> >>
  /\ (pc \notin {"tables_next", "columns", "rows"}) => cursors = <<>>

\* C9 witness: the second table reported no columns; its cursor is closed.
ZeroColumnsClosed ==
  /\ pc = "ret" /\ err = ErrNoColumns(t.Name) /\ Len(data.Tables) = 1
  /\ cursors = <<>>

\* C10: the file is created empty and stays empty until the template runs;
\* a call that failed before rendering returns with it empty; the next call
\* that resolves to the same destination fails the collision guard.
EmptyUntilRender ==
  /\ (f # NoFile /\ ~rendered) => fs[f] = File(<<>>)
  /\ (pc \in {"ret", "idle"} /\ failed.stage \in EarlyStages)
       => fs[Path(clock)] = File(<<>>)
CreatedEmpty ==
  (pc = "idle" /\ pc' = "version") => (f' = Path(clock') /\ fs'[f'] = File(<<>>))
LaterDumpCollides ==
  (pc = "idle" /\ pc' # "idle" /\ failed.stage \in EarlyStages
     /\ Path(clock') = Path(clock)) => err' = ErrExists
NothingWrittenBeforeRender ==
  []EmptyUntilRender /\ [][CreatedEmpty /\ LaterDumpCollides]_vars

\* C10 witness: a call collides with the empty file an earlier call left.
EmptyFileCollision ==
  pc = "ret" /\ err = ErrExists /\ fs[Path(clock)] = File(<<>>)

\* The lines of the i-th table's part of a script: from its "Table structure"
\* comment up to the next one, or up to the closing comment.
RECURSIVE StructureAt(_, _)
StructureAt(lines, k) ==
  IF k > Len(lines) THEN <<>>
  ELSE IF lines[k].kind = "-- Table structure for table"
       THEN <<k>> \o StructureAt(lines, k + 1)
       ELSE StructureAt(lines, k + 1)
Section(lines, i) ==
  LET at == StructureAt(lines, 1)
  IN  SubSeq(lines, at[i], IF i < Len(at) THEN at[i + 1] - 1 ELSE Len(lines) - 1)
Kinds(lines) == [k \in DOMAIN lines |-> lines[k].kind]
DataKinds == {"-- Dumping data for table", "LOCK TABLES", "INSERT INTO", "UNLOCK TABLES"}
HasData(lines) == \E k \in DOMAIN lines : lines[k].kind \in DataKinds
Complete == pc = "ret" /\ rendered /\ err = NoErr

\* C5: a table that reported columns and yielded no row gets the empty values
\* clause, and its part of the script is the DROP TABLE and the creation
\* statement alone; a table's part has the data section exactly when its
\* values clause is not empty, which it is whenever a row was yielded.
EmptyTableNoData ==
  /\ \A i \in DOMAIN data.Tables :
       /\ i <= Len(source)
       /\ source[i].columns >= 1
       /\ (source[i].rows = <<>>) => data.Tables[i].Values = <<>>
       /\ (source[i].rows # <<>>) => data.Tables[i].Values # <<>>
  /\ Complete =>
       \A i \in DOMAIN data.Tables :
         LET part == Section(fs[f].bytes, i)
         IN  /\ HasData(part) = (data.Tables[i].Values # <<>>)
             /\ (source[i].rows = <<>>) =>
                  Kinds(part) = <<"-- Table structure for table",
                                  "DROP TABLE IF EXISTS", "create">>
             /\ (source[i].rows # <<>>) =>
                  Kinds(part) = <<"-- Table structure for table",
                                  "DROP TABLE IF EXISTS", "create",
                                  "-- Dumping data for table", "LOCK TABLES",
                                  "INSERT INTO", "UNLOCK TABLES">>

\* C5 witness: a complete script for a table with columns and no rows.
EmptyTableRendered ==
  /\ Complete /\ Len(source) = 1
  /\ source[1].columns >= 1 /\ source[1].rows = <<>>

\* Reading a values clause back as SQL: tuples separated by commas, a tuple a
\* parenthesized list of string literals separated by commas, a literal
\* ending at the first quote that is not doubled.
Bad == [ok |-> FALSE, val |-> <<>>, next |-> 0]
RECURSIVE LitFrom(_, _, _)
LitFrom(s, j, acc) ==
  IF j > Len(s) THEN Bad
  ELSE IF s[j] # QUOTE THEN LitFrom(s, j + 1, Append(acc, s[j]))
  ELSE IF j + 1 <= Len(s) /\ s[j + 1] = QUOTE THEN LitFrom(s, j + 2, Append(acc, QUOTE))
  ELSE [ok |-> TRUE, val |-> acc, next |-> j + 1]
RECURSIVE TupleFrom(_, _, _)
TupleFrom(s, i, acc) ==
  IF i > Len(s) \/ s[i] # QUOTE THEN Bad
  ELSE LET lit == LitFrom(s, i + 1, <<>>)
       IN  IF ~lit.ok \/ lit.next > Len(s) THEN Bad
           ELSE IF s[lit.next] = ","
                THEN TupleFrom(s, lit.next + 1, Append(acc, lit.val))
           ELSE IF s[lit.next] = ")"
                THEN [ok |-> TRUE, val |-> Append(acc, lit.val), next |-> lit.next + 1]
           ELSE Bad
RECURSIVE ListFrom(_, _, _)
ListFrom(s, i, acc) ==
  IF i > Len(s) \/ s[i] # "(" THEN Bad
  ELSE LET tup == TupleFrom(s, i + 1, <<>>)
       IN  IF ~tup.ok THEN Bad
           ELSE IF tup.next > Len(s)
                THEN [ok |-> TRUE, val |-> Append(acc, tup.val), next |-> tup.next]
           ELSE IF s[tup.next] = ","
                THEN ListFrom(s, tup.next + 1, Append(acc, tup.val))
           ELSE Bad
ReadValues(s) == ListFrom(s, 1, <<>>)

RowTexts(rows) == [k \in DOMAIN rows |-> Scanned(rows[k])]
InsertLines(lines) == SelectSeq(lines, LAMBDA l : l.kind = "INSERT INTO")

\* C6 (as claimed): in a complete script, the part of every table that
\* yielded rows has one INSERT for that table, and its values clause reads as
\* one tuple per row, in the rows' order, each of one literal per column, in
\* the columns' order, holding the column's value.
OneTuplePerRow ==
  Complete =>
    \A i \in DOMAIN data.Tables :
      source[i].rows # <<>> =>
        LET ins == InsertLines(Section(fs[f].bytes, i))
        IN  /\ Len(ins) = 1
            /\ ins[1].name = source[i].table
            /\ ReadValues(ins[1].text).ok
            /\ ReadValues(ins[1].text).val = RowTexts(source[i].rows)

\* C6, for values that hold no quote: the same reading succeeds.  (Not the
\* claim: it leaves out the values on which the claim fails.)
QuoteFree(rows) ==
  \A k \in DOMAIN rows : \A i \in DOMAIN rows[k] :
    \A c \in DOMAIN rows[k][i].text : rows[k][i].text[c] # QUOTE
OneTuplePerQuoteFreeRow ==
  Complete =>
    \A i \in DOMAIN data.Tables :
      (source[i].rows # <<>> /\ QuoteFree(source[i].rows)) =>
        LET ins == InsertLines(Section(fs[f].bytes, i))
        IN  /\ Len(ins) = 1
            /\ ins[1].name = source[i].table
            /\ ReadValues(ins[1].text).ok
            /\ ReadValues(ins[1].text).val = RowTexts(source[i].rows)

\* C7 (as claimed): every row the cursor yields, with NULL columns or without,
\* becomes a tuple, a NULL column giving the same literal '' as an empty string.
NullAsEmpty(row) == [i \in DOMAIN row |-> IF row[i].null THEN <<>> ELSE row[i].text]
NullRendersAsEmpty ==
  columns >= 1 =>
    /\ Len(data_text) = Len(reply.rows)
    /\ \A k \in DOMAIN data_text : data_text[k] = Tuple(NullAsEmpty(reply.rows[k]))
====
